---- MODULE Spec2Model ----
(***************************************************************************)
(* Line-movement inference core of bett-intel                              *)
(* (src/analyzers/line_movement_tracker.py): the snapshot store            *)
(* (save_snapshot / get_snapshots), the consensus line, and reverse line   *)
(* movement.                                                               *)
(*                                                                         *)
(* Strings that the code inspects character by character (timestamps,      *)
(* file names, JSON number literals) are sequences of ASCII codes.         *)
(* Strings that are only compared for equality (ids, team names, market    *)
(* keys) are TLA+ strings.                                                 *)
(* A line (point) of x is held as the integer 2x ("half points"); betting  *)
(* lines are multiples of 0.5, so every sum the code forms is exact in     *)
(* binary floating point.                                                  *)
(***************************************************************************)
EXTENDS Integers, Sequences, FiniteSets, TLC

VARIABLES files, now, call, ret, wr, rd

vars == <<files, now, call, ret, wr, rd>>

(***************************************************************************)
(* Bounds                                                                  *)
(***************************************************************************)
\* the wall clock takes the values 0..MaxClock (half seconds after 10:00:00)
MaxClock == 3
\* longest bookmakers list of a game record handed to the consensus engine
MaxBooks == 3

(***************************************************************************)
(* Characters and text                                                     *)
(***************************************************************************)
Colon == 58
Dash == 45
Dot == 46

RECURSIVE LexLess(_, _)
\* str.__lt__ on the file names: compare code by code, a proper prefix first
LexLess(a, b) ==
    IF b = <<>> THEN FALSE
    ELSE IF a = <<>> THEN TRUE
    ELSE IF Head(a) # Head(b) THEN Head(a) < Head(b)
    ELSE LexLess(Tail(a), Tail(b))

RECURSIVE sorted(_)
\* sorted(paths): ascending by LexLess
sorted(S) ==
    IF S = {} THEN <<>>
    ELSE LET m == CHOOSE x \in S : \A y \in S \ {x} : LexLess(x, y)
         IN  <<m>> \o sorted(S \ {m})

\* str.replace(':', '-')
replace_colon(s) == [i \in 1..Len(s) |-> IF s[i] = Colon THEN Dash ELSE s[i]]

Digit(d) == 48 + d

RECURSIVE Dec(_)
\* decimal digits of a natural number
Dec(n) == IF n < 10 THEN <<Digit(n)>> ELSE Dec(n \div 10) \o <<Digit(n % 10)>>

RECURSIVE Padded(_, _)
\* zero-padded decimal of width w
Padded(n, w) == IF w = 0 THEN <<>> ELSE Padded(n \div 10, w - 1) \o <<Digit(n % 10)>>

RECURSIVE ToNat(_)
\* value of a digit string
ToNat(t) == IF t = <<>> THEN 0 ELSE 10 * ToNat(SubSeq(t, 1, Len(t) - 1)) + (t[Len(t)] - 48)

(***************************************************************************)
(* The clock and datetime.isoformat()                                      *)
(***************************************************************************)
\* "2024-01-01T10:00:"
DayPrefix == <<50,48,50,52,45,48,49,45,48,49,84,49,48,58,48,48,58>>

\* the instant of clock value k
DateTimeOf(k) == [second |-> k \div 2, microsecond |-> (k % 2) * 500000]

\* datetime.isoformat(): the fraction is printed only when microsecond # 0
isoformat(dt) ==
    DayPrefix \o Padded(dt.second, 2)
      \o (IF dt.microsecond = 0 THEN <<>> ELSE <<Dot>> \o Padded(dt.microsecond, 6))

\* the instant an ISO-8601 timestamp of that day denotes
fromisoformat(ts) ==
    [second      |-> ToNat(SubSeq(ts, Len(DayPrefix) + 1, Len(DayPrefix) + 2)),
     microsecond |-> IF Len(ts) > Len(DayPrefix) + 2
                     THEN ToNat(SubSeq(ts, Len(DayPrefix) + 4, Len(ts)))
                     ELSE 0]

\* chronological order of two instants
Before(a, b) ==
    \/ a.second < b.second
    \/ a.second = b.second /\ a.microsecond < b.microsecond

\* the ISO-8601 timestamps a caller may supply
Timestamps == {isoformat(DateTimeOf(k)) : k \in 0..MaxClock}

\* timestamp=None
NoTimestamp == <<>>

(***************************************************************************)
(* Game records (the odds provider's shape) and their numbers              *)
(***************************************************************************)
\* a JSON number or its absence: ty is "absent" (no such key), "none"
\* (null), "int" (v is the integer) or "float" (v is twice the value)
Absent == [ty |-> "absent", v |-> 0]
None == [ty |-> "none", v |-> 0]
Int_(n) == [ty |-> "int", v |-> n]
Float_(h) == [ty |-> "float", v |-> h]

\* dict.get(key): a missing key reads as None
Get(x) == IF x.ty = "absent" THEN None ELSE x

Outcome(name, point, price) == [name |-> name, point |-> point, price |-> price]
Market(key, outcomes) == [key |-> key, outcomes |-> outcomes]
Bookmaker(key, markets) == [key |-> key, markets |-> markets]
Game(id, home, books) == [id |-> id, home_team |-> home, bookmakers |-> books]

(***************************************************************************)
(* json.dump / json.load                                                   *)
(***************************************************************************)
NullText == <<110,117,108,108>>

Abs(n) == IF n < 0 THEN -n ELSE n
Sign(n) == IF n < 0 THEN <<Dash>> ELSE <<>>

\* float_repr with a whole value written without its fraction ("-3" for -3.0)
float_repr_short(h) ==
    Sign(h) \o Dec(Abs(h) \div 2) \o (IF Abs(h) % 2 = 1 THEN <<Dot, Digit(5)>> ELSE <<>>)

\* float.__repr__ of a multiple of 0.5 always carries a fraction digit
float_repr(h) == Sign(h) \o Dec(Abs(h) \div 2) \o <<Dot>> \o <<Digit(IF Abs(h) % 2 = 1 THEN 5 ELSE 0)>>

\* the literal json.dump writes for a number; an absent key writes nothing
json_dump_number(x) ==
    CASE x.ty = "absent" -> <<>>
      [] x.ty = "none"   -> NullText
      [] x.ty = "int"    -> Sign(x.v) \o Dec(Abs(x.v))
      [] x.ty = "float"  -> float_repr(x.v)

\* the number json.load reads from a literal: a literal with a fraction is a
\* float, one without is an int
json_load_number(t) ==
    IF t = <<>> THEN Absent
    ELSE IF t = NullText THEN None
    ELSE LET neg  == t[1] = Dash
             body == IF neg THEN Tail(t) ELSE t
             dots == {i \in 1..Len(body) : body[i] = Dot}
         IN  IF dots = {}
             THEN Int_((IF neg THEN -1 ELSE 1) * ToNat(body))
             ELSE LET d == CHOOSE i \in dots : TRUE
                      whole == ToNat(SubSeq(body, 1, d - 1))
                      half  == IF body[d + 1] = Digit(5) THEN 1 ELSE 0
                  IN  Float_((IF neg THEN -1 ELSE 1) * (2 * whole + half))

json_dump_outcome(o) ==
    [name |-> o.name, point |-> json_dump_number(o.point), price |-> json_dump_number(o.price)]
json_load_outcome(e) ==
    [name |-> e.name, point |-> json_load_number(e.point), price |-> json_load_number(e.price)]

json_dump_game(g) ==
    [id |-> g.id, home_team |-> g.home_team,
     bookmakers |-> [b \in 1..Len(g.bookmakers) |->
        [key |-> g.bookmakers[b].key,
         markets |-> [m \in 1..Len(g.bookmakers[b].markets) |->
            [key |-> g.bookmakers[b].markets[m].key,
             outcomes |-> [o \in 1..Len(g.bookmakers[b].markets[m].outcomes) |->
                json_dump_outcome(g.bookmakers[b].markets[m].outcomes[o])]]]]]]
json_load_game(e) ==
    [id |-> e.id, home_team |-> e.home_team,
     bookmakers |-> [b \in 1..Len(e.bookmakers) |->
        [key |-> e.bookmakers[b].key,
         markets |-> [m \in 1..Len(e.bookmakers[b].markets) |->
            [key |-> e.bookmakers[b].markets[m].key,
             outcomes |-> [o \in 1..Len(e.bookmakers[b].markets[m].outcomes) |->
                json_load_outcome(e.bookmakers[b].markets[m].outcomes[o])]]]]]]

\* json.dump(snapshot, f): the document is written piece by piece: the
\* timestamp, then each game, then the closing brackets
json_dump(snapshot) ==
    <<[k |-> "timestamp", text |-> snapshot.timestamp]>>
      \o [i \in 1..Len(snapshot.games) |-> [k |-> "game", text |-> json_dump_game(snapshot.games[i])]]
      \o <<[k |-> "end", text |-> <<>>]>>

\* a document parses if and only if it was written to its end
Complete(doc) == doc # <<>> /\ doc[Len(doc)].k = "end"

\* json.load(f) of a complete document
json_load(doc) ==
    [timestamp |-> doc[1].text,
     games |-> [i \in 1..(Len(doc) - 2) |-> json_load_game(doc[i + 1].text)]]

(***************************************************************************)
(* The snapshot store                                                      *)
(***************************************************************************)
\* "snapshot_" and ".json"
SnapshotPrefix == <<115,110,97,112,115,104,111,116,95>>
JsonSuffix == <<Dot,106,115,111,110>>

\* the name of the file a snapshot with this timestamp is written to
filename(timestamp) == SnapshotPrefix \o replace_colon(timestamp) \o JsonSuffix

\* the timestamp save_snapshot uses: the caller's, or the clock's
effective_timestamp(timestamp, clock) ==
    IF timestamp = NoTimestamp THEN isoformat(DateTimeOf(clock)) ELSE timestamp

\* open(filepath, 'w') and a write of the document: the file is created or
\* replaced
write_file(fs, name, doc) ==
    [f \in DOMAIN fs \cup {name} |-> IF f = name THEN doc ELSE fs[f]]

\* save_snapshot(games, timestamp) when every write succeeds: the store after
\* the call
save_snapshot(fs, games, timestamp, clock) ==
    LET ts == effective_timestamp(timestamp, clock)
        snapshot == [timestamp |-> ts, games |-> games]
    IN  write_file(fs, filename(ts), json_dump(snapshot))

\* find_game without the comparison of the id: the first game of the snapshot
find_game_any(data, game_id) ==
    IF data.games = <<>> THEN <<>>
    ELSE <<[timestamp |-> data.timestamp, game |-> data.games[1]]>>

\* the first game of a snapshot with this id, as a sequence of zero or one
\* entries
find_game(data, game_id) ==
    LET hits == {i \in 1..Len(data.games) : data.games[i].id = game_id}
    IN  IF hits = {} THEN <<>>
        ELSE LET i == CHOOSE j \in hits : \A h \in hits : j <= h
             IN  <<[timestamp |-> data.timestamp, game |-> data.games[i]]>>

RECURSIVE scan_files(_, _, _)
\* the loop of get_snapshots over the sorted file names; a file that does
\* not parse raises JSONDecodeError out of the call
scan_files(fs, names, game_id) ==
    IF names = <<>> THEN [raised |-> FALSE, value |-> <<>>]
    ELSE IF ~Complete(fs[Head(names)]) THEN [raised |-> TRUE, value |-> <<>>]
    ELSE LET rest == scan_files(fs, Tail(names), game_id)
         IN  IF rest.raised THEN rest
             ELSE [raised |-> FALSE,
                   value |-> find_game(json_load(fs[Head(names)]), game_id) \o rest.value]

\* get_snapshots(game_id)
get_snapshots(fs, game_id) == scan_files(fs, sorted(DOMAIN fs), game_id)

(***************************************************************************)
(* Inputs of the store                                                     *)
(***************************************************************************)
GameA ==
    Game("g1", "H", <<Bookmaker("dk", <<Market("spreads",
        <<Outcome("H", Float_(-7), Int_(-110)), Outcome("A", Float_(7), Int_(-110))>>)>>)>>)
GameB ==
    Game("g1", "H", <<Bookmaker("dk", <<Market("spreads",
        <<Outcome("A", Float_(6), Int_(100)), Outcome("H", Float_(-6), Int_(-120))>>)>>)>>)
GameC ==
    Game("g2", "K", <<Bookmaker("fd", <<Market("h2h",
        <<Outcome("K", Absent, Int_(-150)), Outcome("L", None, Int_(130))>>)>>)>>)

\* the lists of game records handed to save_snapshot (ids unique in a list)
GameLists == {<<GameA>>, <<GameC>>, <<GameB, GameC>>}

\* the ids asked of get_snapshots; "g9" is in no list
GameIds == {"g1", "g2", "g9"}

Idle == [op |-> "none"]
NoWriter == [pc |-> "idle"]
NoReader == [pc |-> "idle"]

(***************************************************************************)
(* Sequential use of the store                                             *)
(***************************************************************************)
Init ==
    /\ files = << >>
    /\ now = 0
    /\ call = Idle
    /\ ret = Idle
    /\ wr = NoWriter
    /\ rd = NoReader

\* time passes
Tick ==
    /\ now < MaxClock
    /\ now' = now + 1
    /\ UNCHANGED <<files, call, ret, wr, rd>>

\* save_snapshot(games, timestamp), every write succeeding
SaveSnapshot(games, timestamp) ==
    /\ files' = save_snapshot(files, games, timestamp, now)
    /\ call' = [op |-> "save_snapshot", games |-> games,
                timestamp |-> effective_timestamp(timestamp, now)]
    /\ ret' = [path |-> filename(effective_timestamp(timestamp, now))]
    /\ UNCHANGED <<now, wr, rd>>

\* get_snapshots(game_id)
GetSnapshots(game_id) ==
    /\ call' = [op |-> "get_snapshots", game_id |-> game_id]
    /\ ret' = get_snapshots(files, game_id)
    /\ UNCHANGED <<files, now, wr, rd>>

Next ==
    \/ Tick
    \/ \E games \in GameLists, timestamp \in Timestamps \cup {NoTimestamp} :
          SaveSnapshot(games, timestamp)
    \/ \E game_id \in GameIds : GetSnapshots(game_id)

Spec == Init /\ [][Next]_vars

(***************************************************************************)
(* The store at the level of file operations: save_snapshot opens the file *)
(* for writing (which empties it), writes the document piece by piece and  *)
(* closes it, and may fail at each of these; a report generator reads the  *)
(* directory and then the files one by one.                                *)
(***************************************************************************)
\* the timestamps of the saves of this specification
IOTimestamps == {isoformat(DateTimeOf(0)), isoformat(DateTimeOf(1))}

InitIO == Init

\* open(filepath, 'w'): the file exists and is empty from here on
WriterOpen(games, timestamp) ==
    /\ wr.pc \in {"idle", "failed"}
    /\ files' = write_file(files, filename(timestamp), <<>>)
    /\ wr' = [pc |-> "writing", name |-> filename(timestamp),
              doc |-> json_dump([timestamp |-> timestamp, games |-> games]),
              pre |-> files]
    /\ UNCHANGED <<now, call, ret, rd>>

\* open(filepath, 'w') raises: the destination is not writable
WriterOpenFails(timestamp) ==
    /\ wr.pc \in {"idle", "failed"}
    /\ wr' = [pc |-> "failed", name |-> filename(timestamp), doc |-> <<>>, pre |-> files]
    /\ UNCHANGED <<files, now, call, ret, rd>>

\* json.dump writes the next piece of the document
WriterWrite ==
    /\ wr.pc = "writing"
    /\ Len(files[wr.name]) < Len(wr.doc)
    /\ files' = [files EXCEPT ![wr.name] = Append(@, wr.doc[Len(@) + 1])]
    /\ UNCHANGED <<now, call, ret, wr, rd>>

\* json.dump raises part-way (a value that does not serialise, a full
\* disk): the with-block closes the file and the exception leaves the call
WriterFails ==
    /\ wr.pc = "writing"
    /\ Len(files[wr.name]) < Len(wr.doc)
    /\ wr' = [wr EXCEPT !.pc = "failed"]
    /\ UNCHANGED <<files, now, call, ret, rd>>

\* the with-block ends: the file is closed and save_snapshot returns
WriterClose ==
    /\ wr.pc = "writing"
    /\ Len(files[wr.name]) = Len(wr.doc)
    /\ wr' = NoWriter
    /\ UNCHANGED <<files, now, call, ret, rd>>

\* get_snapshots: sorted(self.data_dir.glob('snapshot_*.json'))
ReaderGlob(game_id) ==
    /\ rd.pc # "reading"
    /\ rd' = [pc |-> "reading", game_id |-> game_id, names |-> sorted(DOMAIN files),
              out |-> <<>>, bad |-> <<>>]
    /\ UNCHANGED <<files, now, call, ret, wr>>

\* get_snapshots: open and json.load the next file of the listing
ReaderLoad ==
    /\ rd.pc = "reading"
    /\ rd.names # <<>>
    /\ rd' = IF Complete(files[Head(rd.names)])
             THEN [rd EXCEPT !.names = Tail(@),
                             !.out = @ \o find_game(json_load(files[Head(rd.names)]), rd.game_id)]
             ELSE [rd EXCEPT !.pc = "raised", !.bad = Head(rd.names)]
    /\ UNCHANGED <<files, now, call, ret, wr>>

\* get_snapshots returns
ReaderReturn ==
    /\ rd.pc = "reading"
    /\ rd.names = <<>>
    /\ rd' = [rd EXCEPT !.pc = "done"]
    /\ UNCHANGED <<files, now, call, ret, wr>>

NextIO ==
    \/ \E games \in GameLists, timestamp \in IOTimestamps : WriterOpen(games, timestamp)
    \/ \E timestamp \in IOTimestamps : WriterOpenFails(timestamp)
    \/ WriterWrite
    \/ WriterFails
    \/ WriterClose
    \/ \E game_id \in GameIds : ReaderGlob(game_id)
    \/ ReaderLoad
    \/ ReaderReturn

SpecIO == InitIO /\ [][NextIO]_vars

(***************************************************************************)
(* The consensus line                                                      *)
(***************************************************************************)
\* twice the value of a number
Val2(x) == IF x.ty = "int" THEN 2 * x.v ELSE x.v

RECURSIVE Gcd(_, _)
Gcd(a, b) == IF b = 0 THEN a ELSE Gcd(b, a % b)

\* the float num/den (in half points): equal quotients are the same float
Quotient(num, den) ==
    LET g == Gcd(Abs(num), den)
    IN  [ty |-> "float", num |-> num \div g, den |-> den \div g]

RECURSIVE sum_off_by_one(_)
\* sum with the index of the added line one too low: the last line is left out
sum_off_by_one(lines) ==
    IF Len(lines) <= 1 THEN 0
    ELSE sum_off_by_one(SubSeq(lines, 1, Len(lines) - 1)) + Val2(lines[Len(lines) - 1])

RECURSIVE sum(_)
\* sum(lines), in half points
sum(lines) == IF lines = <<>> THEN 0 ELSE sum(SubSeq(lines, 1, Len(lines) - 1)) + Val2(lines[Len(lines)])

RECURSIVE first_named(_, _)
\* for outcome in outcomes: if outcome.get('name') == name: append its point
\* unless it is None; break
first_named(outcomes, name) ==
    IF outcomes = <<>> THEN <<>>
    ELSE IF Head(outcomes).name = name
         THEN (IF Get(Head(outcomes).point) # None THEN <<Head(outcomes).point>> ELSE <<>>)
         ELSE first_named(Tail(outcomes), name)

\* market_lines without the test len(outcomes) >= 2 of the spreads branch
market_lines_any_length(game, market, market_type) ==
    IF market.key # market_type THEN <<>>
    ELSE IF market_type = "spreads" THEN first_named(market.outcomes, game.home_team)
    ELSE IF market_type = "totals" /\ Len(market.outcomes) >= 1
         THEN first_named(market.outcomes, "Over")
    ELSE <<>>

\* the body of the loop over a bookmaker's markets: the lines one market adds
market_lines(game, market, market_type) ==
    IF market.key # market_type THEN <<>>
    ELSE IF market_type = "spreads" /\ Len(market.outcomes) >= 2
         THEN first_named(market.outcomes, game.home_team)
    ELSE IF market_type = "totals" /\ Len(market.outcomes) >= 1
         THEN first_named(market.outcomes, "Over")
    ELSE <<>>

RECURSIVE markets_lines(_, _, _)
\* for market in bookmaker.get('markets', [])
markets_lines(game, markets, market_type) ==
    IF markets = <<>> THEN <<>>
    ELSE market_lines(game, Head(markets), market_type)
           \o markets_lines(game, Tail(markets), market_type)

RECURSIVE bookmakers_lines(_, _, _)
\* for bookmaker in game.get('bookmakers', [])
bookmakers_lines(game, bookmakers, market_type) ==
    IF bookmakers = <<>> THEN <<>>
    ELSE markets_lines(game, Head(bookmakers).markets, market_type)
           \o bookmakers_lines(game, Tail(bookmakers), market_type)

\* calculate_consensus_line(game, market_type)
calculate_consensus_line(game, market_type) ==
    LET lines == bookmakers_lines(game, game.bookmakers, market_type)
    IN  IF lines = <<>> THEN None ELSE Quotient(sum(lines), Len(lines))

\* the quotes of one bookmaker, as the consensus engine may meet them
\* (home team "H")
BookDk ==
    Bookmaker("dk", <<
        Market("spreads", <<Outcome("H", Float_(-7), Int_(-110)), Outcome("A", Float_(7), Int_(-110))>>),
        Market("totals", <<Outcome("Over", Float_(89), Int_(-110)), Outcome("Under", Float_(89), Int_(-110))>>)>>)
BookFd ==
    Bookmaker("fd", <<
        Market("h2h", <<Outcome("H", Absent, Int_(-150)), Outcome("A", Absent, Int_(130))>>),
        Market("spreads", <<Outcome("A", Float_(6), Int_(-105)), Outcome("H", Float_(-6), Int_(-115))>>)>>)
BookMgm ==
    Bookmaker("mgm", <<
        Market("spreads", <<Outcome("H", None, Int_(-110)), Outcome("A", Float_(5), Int_(-110))>>),
        Market("totals", <<Outcome("Under", Float_(90), Int_(-110)), Outcome("Over", Int_(45), Int_(-110))>>)>>)
BookCz ==
    Bookmaker("cz", <<
        Market("spreads", <<Outcome("H", Float_(-5), Int_(-110))>>),
        Market("totals", <<Outcome("Over", Float_(91), Int_(-110))>>)>>)
BookPb ==
    Bookmaker("pb", <<
        Market("spreads", <<Outcome("A", Float_(4), Int_(-110)), Outcome("B", Float_(-4), Int_(-110))>>),
        Market("totals", <<Outcome("Under", Float_(88), Int_(-110))>>),
        Market("totals", <<>>)>>)
BookBr ==
    Bookmaker("br", <<
        Market("spreads", <<Outcome("H", Float_(-8), Int_(-110)), Outcome("A", Float_(8), Int_(-110))>>),
        Market("spreads", <<Outcome("H", Float_(-9), Int_(120)), Outcome("A", Float_(9), Int_(-140))>>)>>)
BookBs == Bookmaker("bs", <<>>)

Books == {BookDk, BookFd, BookMgm, BookCz, BookPb, BookBr, BookBs}

\* the game records handed to the consensus engine
ConsensusGames ==
    {Game("g1", "H", bs) : bs \in UNION {[1..n -> Books] : n \in 0..MaxBooks}}

MarketTypes == {"spreads", "totals"}

Pending == [op |-> "pending"]
Returned(v) == [op |-> "returned", value |-> v]

InitConsensus ==
    /\ files = << >>
    /\ now = 0
    /\ wr = NoWriter
    /\ rd = NoReader
    /\ call \in {[op |-> "calculate_consensus_line", game |-> g, market_type |-> mt] :
                    g \in ConsensusGames, mt \in MarketTypes}
    /\ ret = Pending

CalculateConsensusLine ==
    /\ call.op = "calculate_consensus_line"
    /\ ret = Pending
    /\ ret' = Returned(calculate_consensus_line(call.game, call.market_type))
    /\ UNCHANGED <<files, now, call, wr, rd>>

NextConsensus == CalculateConsensusLine

SpecConsensus == InitConsensus /\ [][NextConsensus]_vars

(***************************************************************************)
(* Reverse line movement                                                   *)
(***************************************************************************)
\* detect_reverse_line_movement with the comparisons of the percentage not
\* strict
detect_reverse_line_movement_ge(opening_line, current_line, implied_public_bet_pct, threshold) ==
    LET line_movement == current_line - opening_line
    IN  IF implied_public_bet_pct >= threshold /\ line_movement < 0 THEN TRUE
        ELSE IF implied_public_bet_pct <= (100 - threshold) /\ line_movement > 0 THEN TRUE
        ELSE FALSE

\* detect_reverse_line_movement(opening_line, current_line,
\* implied_public_bet_pct, threshold); lines in half points, percentages in
\* percent
detect_reverse_line_movement(opening_line, current_line, implied_public_bet_pct, threshold) ==
    LET line_movement == current_line - opening_line
    IN  IF implied_public_bet_pct > threshold /\ line_movement < 0 THEN TRUE
        ELSE IF implied_public_bet_pct < (100 - threshold) /\ line_movement > 0 THEN TRUE
        ELSE FALSE

\* threshold: float = 55.0
DefaultThreshold == 55

RlmLines == {-7, -6, -5}
RlmPcts == {35, 40, 45, 50, 55, 60, 65}
RlmThresholds == {40, DefaultThreshold, 60}

InitRlm ==
    /\ files = << >>
    /\ now = 0
    /\ wr = NoWriter
    /\ rd = NoReader
    /\ call \in {[op |-> "detect_reverse_line_movement", opening_line |-> o, current_line |-> c,
                  implied_public_bet_pct |-> p, threshold |-> t] :
                    o \in RlmLines, c \in RlmLines, p \in RlmPcts, t \in RlmThresholds}
    /\ ret = Pending

DetectReverseLineMovement ==
    /\ call.op = "detect_reverse_line_movement"
    /\ ret = Pending
    /\ ret' = Returned(detect_reverse_line_movement(call.opening_line, call.current_line,
                                                    call.implied_public_bet_pct, call.threshold))
    /\ UNCHANGED <<files, now, call, wr, rd>>

NextRlm == DetectReverseLineMovement

SpecRlm == InitRlm /\ [][NextRlm]_vars

(***************************************************************************)
(* Steam moves                                                             *)
(***************************************************************************)
\* longest snapshot sequence handed to detect_steam_move
MaxSnaps == 3

\* a raised exception
Raised == [op |-> "raised"]

\* movement >= 1.5, in half points
SteamPoints == 3
\* significant_moves >= 3
SteamBooks == 3

\* spreads[book_name] = point on a dict that keeps insertion order: a key
\* already there keeps its place
dict_set(d, k, v) ==
    IF \E i \in 1..Len(d) : d[i].key = k
    THEN [i \in 1..Len(d) |-> IF d[i].key = k THEN [key |-> k, point |-> v] ELSE d[i]]
    ELSE Append(d, [key |-> k, point |-> v])

\* d[k]
dict_get(d, k) == d[CHOOSE i \in 1..Len(d) : d[i].key = k].point

\* k in d
dict_has(d, k) == \E i \in 1..Len(d) : d[i].key = k

RECURSIVE home_point(_, _)
\* for outcome in outcomes: if outcome.get('name') == home_team:
\* outcome.get('point', 0); break.  A missing point reads as 0, a null point
\* as None.
home_point(outcomes, home_team) ==
    IF outcomes = <<>> THEN <<>>
    ELSE IF Head(outcomes).name = home_team
         THEN <<IF Head(outcomes).point.ty = "absent" THEN Int_(0) ELSE Head(outcomes).point>>
         ELSE home_point(Tail(outcomes), home_team)

RECURSIVE extract_markets(_, _, _, _)
\* for market in bookmaker.get('markets', [])
extract_markets(d, game, book_name, markets) ==
    IF markets = <<>> THEN d
    ELSE LET market == Head(markets)
             found  == IF market.key = "spreads" /\ Len(market.outcomes) >= 2
                       THEN home_point(market.outcomes, game.home_team)
                       ELSE <<>>
         IN  extract_markets(IF found = <<>> THEN d ELSE dict_set(d, book_name, found[1]),
                             game, book_name, Tail(markets))

RECURSIVE extract_books(_, _, _)
\* for bookmaker in game.get('bookmakers', [])
extract_books(d, game, bookmakers) ==
    IF bookmakers = <<>> THEN d
    ELSE extract_books(extract_markets(d, game, Head(bookmakers).key, Head(bookmakers).markets),
                       game, Tail(bookmakers))

\* _extract_spreads(game): the dict book -> home spread, as the sequence of
\* its items
_extract_spreads(game) == extract_books(<<>>, game, game.bookmakers)

RECURSIVE count_moves(_, _, _)
\* for book in prev_spreads: the books counted and their movements added up
\* (half points); None - x raises TypeError
count_moves(prev_spreads, curr_spreads, i) ==
    IF i > Len(prev_spreads) THEN [raised |-> FALSE, significant_moves |-> 0, total_movement |-> 0]
    ELSE LET book == prev_spreads[i].key
         IN  IF ~dict_has(curr_spreads, book) THEN count_moves(prev_spreads, curr_spreads, i + 1)
             ELSE IF dict_get(curr_spreads, book) = None \/ prev_spreads[i].point = None
                  THEN [raised |-> TRUE, significant_moves |-> 0, total_movement |-> 0]
             ELSE LET movement == Abs(Val2(dict_get(curr_spreads, book)) - Val2(prev_spreads[i].point))
                      rest == count_moves(prev_spreads, curr_spreads, i + 1)
                  IN  IF rest.raised \/ movement < SteamPoints THEN rest
                      ELSE [raised |-> FALSE,
                            significant_moves |-> rest.significant_moves + 1,
                            total_movement |-> rest.total_movement + movement]

\* 'up' if curr_spreads[list(curr_spreads.keys())[0]] >
\* prev_spreads[list(prev_spreads.keys())[0]] else 'down'
direction(prev_spreads, curr_spreads) ==
    IF Val2(curr_spreads[1].point) > Val2(prev_spreads[1].point) THEN "up" ELSE "down"

RECURSIVE scan_pairs(_, _)
\* for i in range(len(snapshots) - 1)
scan_pairs(snapshots, i) ==
    IF i > Len(snapshots) - 1 THEN Returned(None)
    ELSE LET prev_spreads == _extract_spreads(snapshots[i].game)
             curr_spreads == _extract_spreads(snapshots[i + 1].game)
             moves == count_moves(prev_spreads, curr_spreads, 1)
         IN  IF moves.raised THEN Raised
             ELSE IF moves.significant_moves >= SteamBooks
                  THEN IF curr_spreads[1].point = None \/ prev_spreads[1].point = None
                       THEN Raised
                       ELSE Returned([timestamp |-> snapshots[i + 1].timestamp,
                                      books_moved |-> moves.significant_moves,
                                      avg_movement |-> Quotient(moves.total_movement,
                                                                moves.significant_moves),
                                      direction |-> direction(prev_spreads, curr_spreads)])
             ELSE scan_pairs(snapshots, i + 1)

\* detect_steam_move without the test of the length and with the loop over
\* range(len(snapshots)): snapshots[i + 1] past the end raises IndexError
detect_steam_move_all_indices(snapshots) ==
    IF Len(snapshots) = 0 THEN Returned(None)
    ELSE IF Len(snapshots) = 1 THEN Raised
    ELSE LET r == scan_pairs(snapshots, 1) IN IF r = Returned(None) THEN Raised ELSE r

\* detect_steam_move(snapshots)
detect_steam_move(snapshots) ==
    IF Len(snapshots) < 2 THEN Returned(None) ELSE scan_pairs(snapshots, 1)

\* a bookmaker with a two-outcome spreads market (home team "H")
SpreadBook(key, point) ==
    Bookmaker(key, <<Market("spreads",
        <<Outcome("H", point, Int_(-110)), Outcome("A", point, Int_(-110))>>)>>)

\* a bookmaker that quotes no spread
MoneylineBook(key) ==
    Bookmaker(key, <<Market("h2h",
        <<Outcome("H", Absent, Int_(-150)), Outcome("A", Absent, Int_(130))>>)>>)

\* the states of one game's quotes a snapshot may hold
\* all four books at -3.0
QuotesBase ==
    <<SpreadBook("b1", Float_(-6)), SpreadBook("b2", Float_(-6)),
      SpreadBook("b3", Float_(-6)), SpreadBook("b4", Float_(-6))>>
\* b1, b2, b3 at -4.5
QuotesThree ==
    <<SpreadBook("b1", Float_(-9)), SpreadBook("b2", Float_(-9)),
      SpreadBook("b3", Float_(-9)), SpreadBook("b4", Float_(-6))>>
\* b1, b2 at -4.5, b3 at -4.0
QuotesTwo ==
    <<SpreadBook("b1", Float_(-9)), SpreadBook("b2", Float_(-9)),
      SpreadBook("b3", Float_(-8)), SpreadBook("b4", Float_(-6))>>
\* b1, b2 at -4.5, b3 without a point in its home outcome
QuotesNoPoint ==
    <<SpreadBook("b1", Float_(-9)), SpreadBook("b2", Float_(-9)),
      SpreadBook("b3", Absent), SpreadBook("b4", Float_(-6))>>
\* b1, b2 at -4.5, b3 with a null point
QuotesNullPoint ==
    <<SpreadBook("b1", Float_(-9)), SpreadBook("b2", Float_(-9)),
      SpreadBook("b3", None), SpreadBook("b4", Float_(-6))>>
\* b1, b2 at -4.5, b3 quoting no spread
QuotesNoSpread ==
    <<SpreadBook("b1", Float_(-9)), SpreadBook("b2", Float_(-9)),
      MoneylineBook("b3"), SpreadBook("b4", Float_(-6))>>
\* b4 first and at -1.0, the others at -4.5
QuotesReordered ==
    <<SpreadBook("b4", Float_(-2)), SpreadBook("b1", Float_(-9)),
      SpreadBook("b2", Float_(-9)), SpreadBook("b3", Float_(-9))>>
\* b1, b2, b3 at -3.0, b4 at -1.0
QuotesBaseHigh ==
    <<SpreadBook("b1", Float_(-6)), SpreadBook("b2", Float_(-6)),
      SpreadBook("b3", Float_(-6)), SpreadBook("b4", Float_(-2))>>
\* all four books at -7.5
QuotesFar ==
    <<SpreadBook("b1", Float_(-15)), SpreadBook("b2", Float_(-15)),
      SpreadBook("b3", Float_(-15)), SpreadBook("b4", Float_(-15))>>

Quotes == {QuotesBase, QuotesThree, QuotesTwo, QuotesNoPoint, QuotesNullPoint,
           QuotesNoSpread, QuotesReordered, QuotesBaseHigh, QuotesFar}

\* the snapshot sequences handed to detect_steam_move: the k-th snapshot
\* carries the timestamp of clock value k - 1
SnapshotSequences ==
    UNION {{[i \in 1..n |-> [timestamp |-> isoformat(DateTimeOf(i - 1)),
                             game |-> Game("g1", "H", q[i])]] : q \in [1..n -> Quotes]} :
              n \in 0..MaxSnaps}

InitSteam ==
    /\ files = << >>
    /\ now = 0
    /\ wr = NoWriter
    /\ rd = NoReader
    /\ call \in {[op |-> "detect_steam_move", snapshots |-> s] : s \in SnapshotSequences}
    /\ ret = Pending

DetectSteamMove ==
    /\ call.op = "detect_steam_move"
    /\ ret = Pending
    /\ ret' = detect_steam_move(call.snapshots)
    /\ UNCHANGED <<files, now, call, wr, rd>>

NextSteam == DetectSteamMove

SpecSteam == InitSteam /\ [][NextSteam]_vars

(***************************************************************************)
(* Implied probabilities                                                   *)
(***************************************************************************)
\* American odds handed to american_to_implied_prob are in -MaxOdds..MaxOdds
MaxOdds == 200

\* american_to_implied_prob without the final * 100: a fraction, not a percentage
american_to_implied_prob_fraction(odds) ==
    IF odds < 0
    THEN Quotient(Abs(odds), Abs(odds) + 100)
    ELSE Quotient(100, odds + 100)

\* american_to_implied_prob(odds); the result is the exact quotient, in percent
american_to_implied_prob(odds) ==
    IF odds < 0
    THEN Quotient(Abs(odds) * 100, Abs(odds) + 100)
    ELSE Quotient(100 * 100, odds + 100)

\* odds = outcome.get('price', 0)
get_price(outcome) == IF outcome.price.ty = "absent" THEN Int_(0) ELSE outcome.price

\* if odds: None and 0 are false
truthy(odds) == odds.ty # "none" /\ odds.v # 0

\* probs[name] = v on a dict, a function from outcome names
probs_set(probs, name, v) ==
    [n \in (DOMAIN probs) \cup {name} |-> IF n = name THEN v ELSE probs[n]]

RECURSIVE market_probabilities(_, _)
\* the loop of calculate_market_probabilities over the outcomes left
market_probabilities(probs, outcomes) ==
    IF outcomes = <<>> THEN probs
    ELSE LET outcome == Head(outcomes)
             odds == get_price(outcome)
         IN  market_probabilities(IF truthy(odds)
                                  THEN probs_set(probs, outcome.name,
                                                 american_to_implied_prob(odds.v))
                                  ELSE probs,
                                  Tail(outcomes))

\* calculate_market_probabilities(outcomes)
calculate_market_probabilities(outcomes) == market_probabilities(<<>>, outcomes)

Prices == {Absent, None, Int_(0), Int_(-110), Int_(150)}
OutcomeNames == {"A", "B"}
PricedOutcomes == {Outcome(n, Absent, pr) : n \in OutcomeNames, pr \in Prices}
OutcomeLists ==
    {<<>>} \cup {<<a>> : a \in PricedOutcomes}
           \cup {<<a, b>> : a \in PricedOutcomes, b \in PricedOutcomes}

InitOdds ==
    /\ files = << >>
    /\ now = 0
    /\ wr = NoWriter
    /\ rd = NoReader
    /\ call \in {[op |-> "american_to_implied_prob", odds |-> o] : o \in (-MaxOdds)..MaxOdds}
          \cup {[op |-> "calculate_market_probabilities", outcomes |-> os] : os \in OutcomeLists}
    /\ ret = Pending

AmericanToImpliedProb ==
    /\ call.op = "american_to_implied_prob"
    /\ ret = Pending
    /\ ret' = Returned(american_to_implied_prob(call.odds))
    /\ UNCHANGED <<files, now, call, wr, rd>>

CalculateMarketProbabilities ==
    /\ call.op = "calculate_market_probabilities"
    /\ ret = Pending
    /\ ret' = Returned(calculate_market_probabilities(call.outcomes))
    /\ UNCHANGED <<files, now, call, wr, rd>>

NextOdds == AmericanToImpliedProb \/ CalculateMarketProbabilities

SpecOdds == InitOdds /\ [][NextOdds]_vars

(***************************************************************************)
(* The line movement report                                                *)
(***************************************************************************)
\* if opening_spread and current_spread: None and 0.0 are false
line_truthy(line) == line # None /\ line.num # 0

\* current - opening of two floats
minus(current, opening) ==
    Quotient(current.num * opening.den - opening.num * current.den,
             current.den * opening.den)

\* current - opening if opening and current else None
movement(opening, current) ==
    IF line_truthy(opening) /\ line_truthy(current) THEN minus(current, opening) ELSE None

\* the part of get_line_movement_report after the test of the snapshots
build_report(game_id, snapshots) ==
    LET opening_game == snapshots[1].game
        current_game == snapshots[Len(snapshots)].game
        opening_spread == calculate_consensus_line(opening_game, "spreads")
        current_spread == calculate_consensus_line(current_game, "spreads")
        opening_total == calculate_consensus_line(opening_game, "totals")
        current_total == calculate_consensus_line(current_game, "totals")
        steam == detect_steam_move(snapshots)
    IN  IF steam = Raised THEN Raised
        ELSE Returned([game_id |-> game_id,
                       opening_timestamp |-> snapshots[1].timestamp,
                       current_timestamp |-> snapshots[Len(snapshots)].timestamp,
                       spread |-> [opening |-> opening_spread,
                                   current |-> current_spread,
                                   movement |-> movement(opening_spread, current_spread)],
                       total |-> [opening |-> opening_total,
                                  current |-> current_total,
                                  movement |-> movement(opening_total, current_total)],
                       steam_moves |-> IF steam.value # None THEN <<steam.value>> ELSE <<>>,
                       snapshots_analyzed |-> Len(snapshots)])

\* get_line_movement_report without the test of the snapshots: snapshots[0]
\* of an empty list raises IndexError
get_line_movement_report_no_test(fs, game_id) ==
    LET snapshots == get_snapshots(fs, game_id)
    IN  IF snapshots.raised THEN Raised
        ELSE IF snapshots.value = <<>> THEN Raised
        ELSE build_report(game_id, snapshots.value)

\* get_line_movement_report(game_id) on the store fs
get_line_movement_report(fs, game_id) ==
    LET snapshots == get_snapshots(fs, game_id)
    IN  IF snapshots.raised THEN Raised
        ELSE IF snapshots.value = <<>>
             THEN Returned([error |-> "No snapshots found for this game"])
        ELSE build_report(game_id, snapshots.value)

\* "g1" at pick'em: a home spread of 0.0, and a total of 44.5
GamePickem ==
    Game("g1", "H", <<Bookmaker("dk", <<
        Market("spreads", <<Outcome("H", Float_(0), Int_(-110)), Outcome("A", Float_(0), Int_(-110))>>),
        Market("totals", <<Outcome("Over", Float_(89), Int_(-110)), Outcome("Under", Float_(89), Int_(-110))>>)>>)>>)
\* "g1" with a home spread of -3.0 and a total of 45.0
GameMoved ==
    Game("g1", "H", <<Bookmaker("dk", <<
        Market("spreads", <<Outcome("H", Float_(-6), Int_(-110)), Outcome("A", Float_(6), Int_(-110))>>),
        Market("totals", <<Outcome("Over", Float_(90), Int_(-110)), Outcome("Under", Float_(90), Int_(-110))>>)>>)>>)

\* the lists of game records saved before a report is asked for
ReportGameLists == {<<GameA>>, <<GamePickem, GameC>>, <<GameMoved>>}

InitReport == Init

\* get_line_movement_report followed by the stamping of the report with the
\* time of its generation
GetLineMovementReport_stamped(game_id) ==
    /\ call' = [op |-> "get_line_movement_report", game_id |-> game_id,
                repeated |-> call.op = "get_line_movement_report" /\ call.game_id = game_id]
    /\ ret' = [op |-> get_line_movement_report(files, game_id).op,
               report |-> get_line_movement_report(files, game_id),
               generated_at |-> isoformat(DateTimeOf(now))]
    /\ UNCHANGED <<files, now, wr, rd>>

\* get_line_movement_report(game_id); `repeated` records that the call before
\* it was the same call, with no save in between
GetLineMovementReport(game_id) ==
    /\ call' = [op |-> "get_line_movement_report", game_id |-> game_id,
                repeated |-> call.op = "get_line_movement_report" /\ call.game_id = game_id]
    /\ ret' = get_line_movement_report(files, game_id)
    /\ UNCHANGED <<files, now, wr, rd>>

NextReport ==
    \/ Tick
    \/ \E games \in ReportGameLists, timestamp \in Timestamps \cup {NoTimestamp} :
          SaveSnapshot(games, timestamp)
    \/ \E game_id \in GameIds : GetLineMovementReport(game_id)

SpecReport == InitReport /\ [][NextReport]_vars

(***************************************************************************)
(* The daily run: main() of scripts/run_daily.py with the collector it     *)
(* drives. `call` holds the position in main (pc), the settings, and the   *)
(* collector's fields; `ret` is Pending until the process has exited.      *)
(***************************************************************************)
\* the odds provider returns at most MaxGames games
MaxGames == 2

\* len(urls_to_try) in scrape_all_matchup_stats
UrlsToTry == 4

\* sys.exit(status), and the end of the process after main returned
exit(status) == [op |-> "exit", status |-> status]

InitDaily ==
    /\ files = << >>
    /\ now = 0
    /\ wr = NoWriter
    /\ rd = NoReader
    /\ call \in {[op |-> "main", pc |-> "check_key", ODDS_API_KEY |-> k,
                  SAVE_HISTORICAL |-> h, driver |-> "none", games |-> 0,
                  game |-> 0, url |-> 0, with_stats |-> 0, collect |-> "none"] :
                    k \in {"", "key"}, h \in BOOLEAN}
    /\ ret = Pending

\* if not ODDS_API_KEY: sys.exit(1); then the collector is constructed and
\* collect_all_data is entered
CheckApiKey ==
    /\ ret = Pending
    /\ call.pc = "check_key"
    /\ IF call.ODDS_API_KEY = ""
       THEN ret' = exit(1) /\ UNCHANGED call
       ELSE ret' = ret /\ call' = [call EXCEPT !.pc = "fetch_odds", !.collect = "running"]
    /\ UNCHANGED <<files, now, wr, rd>>

\* fetch_odds: get_nfl_odds returns n games (none after a request error);
\* without games collect_all_data returns False and main exits with 1. Or
\* fetch_odds raises (a body that is not JSON, a game without 'id') and the
\* exception reaches the handler of __main__
FetchOdds(n, raises) ==
    /\ ret = Pending
    /\ call.pc = "fetch_odds"
    /\ IF raises
       THEN ret' = exit(1) /\ call' = [call EXCEPT !.collect = "raised"]
       ELSE IF n = 0
       THEN ret' = exit(1) /\ call' = [call EXCEPT !.collect = "false"]
       ELSE ret' = ret /\ call' = [call EXCEPT !.pc = "initialize_driver", !.games = n]
    /\ UNCHANGED <<files, now, wr, rd>>

\* scrape_betting_percentages: if not self.driver: self.initialize_driver(),
\* before the try. outcome "ok": a browser is started; "no_browser": both
\* attempts to start one fail and the exception is raised again;
\* "started_then_failed": webdriver.Chrome succeeds, execute_cdp_cmd and the
\* second attempt fail
InitializeDriver(outcome) ==
    /\ ret = Pending
    /\ call.pc = "initialize_driver"
    /\ CASE outcome = "ok" ->
              /\ call' = [call EXCEPT !.pc = "scrape_betting_percentages", !.driver = "open"]
              /\ ret' = ret
         [] outcome = "no_browser" ->
              /\ call' = [call EXCEPT !.collect = "raised"]
              /\ ret' = exit(1)
         [] outcome = "started_then_failed" ->
              /\ call' = [call EXCEPT !.collect = "raised", !.driver = "open"]
              /\ ret' = exit(1)
    /\ UNCHANGED <<files, now, wr, rd>>

\* the try block of scrape_betting_percentages: the page is read, or an
\* exception (a timeout included) is caught and reported
ScrapeBettingPercentages(ok) ==
    /\ ret = Pending
    /\ call.pc = "scrape_betting_percentages"
    /\ call' = [call EXCEPT !.pc = "scrape_all_matchup_stats", !.game = 1, !.url = 1]
    /\ UNCHANGED <<files, now, ret, wr, rd>>

\* one url of urls_to_try for the current game in scrape_all_matchup_stats:
\* the stats are found (break), or the url fails (404, timeout, no tables,
\* any exception: continue). After the last game collect_all_data returns
\* True
TryMatchupUrl(found) ==
    /\ ret = Pending
    /\ call.pc = "scrape_all_matchup_stats"
    /\ LET next_game == [call EXCEPT !.game = call.game + 1, !.url = 1,
                                     !.with_stats = call.with_stats + (IF found THEN 1 ELSE 0)]
       IN  call' = IF found \/ call.url = UrlsToTry
                   THEN IF call.game = call.games
                        THEN [next_game EXCEPT !.pc = "save_to_json", !.collect = "true"]
                        ELSE next_game
                   ELSE [call EXCEPT !.url = call.url + 1]
    /\ UNCHANGED <<files, now, ret, wr, rd>>

\* a statement of main after the collection: collector.save_to_json(...),
\* NFLAlertEngine(data_file) with analyze_all_games(), export_alerts(...)
\* with the summary, and cleanup_old_data() if not SAVE_HISTORICAL. It
\* succeeds and main goes on, or it raises and the handler of __main__ exits
\* with 1
StepOfMain(ok) ==
    /\ ret = Pending
    /\ call.pc \in {"save_to_json", "analyze_all_games", "export_alerts", "cleanup_old_data"}
    /\ IF ok
       THEN /\ ret' = ret
            /\ call' = [call EXCEPT !.pc =
                          CASE call.pc = "save_to_json" -> "analyze_all_games"
                            [] call.pc = "analyze_all_games" -> "export_alerts"
                            [] call.pc = "export_alerts" ->
                                 IF call.SAVE_HISTORICAL THEN "close" ELSE "cleanup_old_data"
                            [] call.pc = "cleanup_old_data" -> "close"]
       ELSE ret' = exit(1) /\ UNCHANGED call
    /\ UNCHANGED <<files, now, wr, rd>>

\* collector.close(): the browser is quit, main returns and the process
\* ends with status 0; or driver.quit() raises
Close(ok) ==
    /\ ret = Pending
    /\ call.pc = "close"
    /\ IF ok
       THEN ret' = exit(0) /\ call' = [call EXCEPT !.pc = "done", !.driver = "closed"]
       ELSE ret' = exit(1) /\ UNCHANGED call
    /\ UNCHANGED <<files, now, wr, rd>>

\* except KeyboardInterrupt: sys.exit(0), at any point of main
KeyboardInterrupt ==
    /\ ret = Pending
    /\ ret' = exit(0)
    /\ UNCHANGED <<files, now, call, wr, rd>>

NextDaily ==
    \/ CheckApiKey
    \/ \E n \in 0..MaxGames, raises \in BOOLEAN : FetchOdds(n, raises)
    \/ \E outcome \in {"ok", "no_browser", "started_then_failed"} : InitializeDriver(outcome)
    \/ \E ok \in BOOLEAN : ScrapeBettingPercentages(ok)
    \/ \E found \in BOOLEAN : TryMatchupUrl(found)
    \/ \E ok \in BOOLEAN : StepOfMain(ok)
    \/ \E ok \in BOOLEAN : Close(ok)
    \/ KeyboardInterrupt

SpecDaily == InitDaily /\ [][NextDaily]_vars

(***************************************************************************)
(* Percentages of the alert engine. A percentage is a Python float made    *)
(* from a decimal text with at most one fractional digit. The double       *)
(* nearest to n/10 is not n/10, and a difference of two doubles is rounded *)
(* again: a float is the record [n, e] that stands for the double          *)
(*     n / 10 + e * 2^-60 / 10                                             *)
(* (n in tenths, e the rounding error), computed as IEEE 754 binary64      *)
(* does, with round to nearest, ties to even.                              *)
(***************************************************************************)
Percent == 37
Space == 32

\* the error of the double nearest to n/10 + e * 2^-60 / 10 (n >= 0; for
\* n = 0 the value is a difference of two errors, which is exact). p is
\* the binary exponent of the value, 2^p <= value < 2^(p+1); the doubles of
\* exponent p are the multiples of 2^(p-52), that is of G units; R2 is the
\* value modulo 2G
round_to_double(n, e) ==
    IF n = 0 THEN e
    ELSE LET RECURSIVE Pow2(_)
             Pow2(k) == IF k = 0 THEN 1 ELSE 2 * Pow2(k - 1)
             RECURSIVE Pow2Mod(_, _)
             Pow2Mod(k, m) == IF k = 0 THEN 1 % m ELSE (2 * Pow2Mod(k - 1, m)) % m
             p0 == CHOOSE q \in -8..11 :
                      Pow2(q + 8) * 10 <= 256 * n /\ 256 * n < Pow2(q + 9) * 10
             p == IF 256 * n = Pow2(p0 + 8) * 10 /\ e < 0 THEN p0 - 1 ELSE p0
             h == Pow2(p + 8)
             G == 10 * h
             R2 == (h * (((n % 20) * Pow2Mod(52 - p, 20)) % 20) + e + 2 * G) % (2 * G)
             R == R2 % G
         IN  IF 2 * R < G \/ (2 * R = G /\ R2 < G) THEN e - R ELSE e + G - R

\* the double nearest to n/10
float_of_tenths(n) == [n |-> n, e |-> round_to_double(n, 0)]

\* float.__le__
float_le(x, y) == x.n < y.n \/ (x.n = y.n /\ x.e <= y.e)

\* float.__sub__: the exact difference, rounded
float_sub(x, y) ==
    IF float_le(y, x)
    THEN [n |-> x.n - y.n, e |-> round_to_double(x.n - y.n, x.e - y.e)]
    ELSE [n |-> x.n - y.n, e |-> -round_to_double(y.n - x.n, y.e - x.e)]

\* abs(x)
float_abs(x) == IF float_le(float_of_tenths(0), x) THEN x ELSE [n |-> -x.n, e |-> -x.e]

\* float(text) of a decimal text with at most one fractional digit (the
\* texts of this model have no more); other texts raise ValueError
float_of_text(s) ==
    LET IsDigits(t) == \A i \in 1..Len(t) : t[i] \in 48..57
        dots == {i \in 1..Len(s) : s[i] = Dot}
        d == IF dots = {} THEN Len(s) + 1 ELSE CHOOSE i \in dots : \A j \in dots : i <= j
        whole == SubSeq(s, 1, d - 1)
        frac == SubSeq(s, d + 1, Len(s))
    IN  IF IsDigits(whole) /\ IsDigits(frac) /\ Len(whole) + Len(frac) > 0 /\ Len(frac) <= 1
        THEN Returned(float_of_tenths(10 * ToNat(whole) + ToNat(frac)))
        ELSE Raised

\* _parse_percentage(pct_str): float(pct_str.replace('%', '').strip()), and
\* 0 when float() raises
_parse_percentage(pct_str) ==
    LET replaced == SelectSeq(pct_str, LAMBDA c : c # Percent)
        inner == {i \in 1..Len(replaced) : replaced[i] # Space}
        stripped == IF inner = {} THEN <<>>
                    ELSE SubSeq(replaced, CHOOSE i \in inner : \A j \in inner : i <= j,
                                          CHOOSE i \in inner : \A j \in inner : j <= i)
        r == float_of_text(stripped)
    IN  IF r = Raised THEN float_of_tenths(0) ELSE r.value

(***************************************************************************)
(* The alert engine. A game of the data file is a record with its          *)
(* betting_percentages (texts, Absent for a missing key), the spread lines *)
(* and the Over line of its odds (half points) and the points per game of  *)
(* its matchup_stats. An alert keeps the keys type, priority, game_id and  *)
(* data of the dict; nth is not a key: it is len(self.alerts) at the       *)
(* append, the number of alerts generated before this one.                 *)
(***************************************************************************)
\* analyze_all_games is called at most MaxCalls times on an engine
MaxCalls == 2

\* betting.get(key, '0')
get_pct(betting, key) ==
    IF betting[key].ty = "absent" THEN <<Digit(0)>> ELSE betting[key].text

\* the dict appended to self.alerts
alert(alerts, type, priority, game, data) ==
    [type |-> type, priority |-> priority, game_id |-> game.id, data |-> data,
     nth |-> Len(alerts)]

\* _check_sharp_money(game)
_check_sharp_money(alerts, game) ==
    LET bet_pct == _parse_percentage(get_pct(game.betting_percentages, "spread_bet_pct"))
        money_pct == _parse_percentage(get_pct(game.betting_percentages, "spread_money_pct"))
        differential == float_abs(float_sub(money_pct, bet_pct))
    IN  IF bet_pct = float_of_tenths(0) \/ money_pct = float_of_tenths(0) THEN alerts
        ELSE IF float_le(float_of_tenths(250), differential)
             THEN Append(alerts, alert(alerts, "sharp_money", "HIGH", game,
                      [bet_pct |-> bet_pct, money_pct |-> money_pct,
                       differential |-> differential]))
             ELSE alerts

\* _check_line_flip(game): the first team with 0 < abs(line) <= 1.5
_check_line_flip(alerts, game) ==
    LET spreads == game.odds.spreads
        hits == {i \in 1..Len(spreads) :
                    Abs(Val2(spreads[i].line)) <= 3 /\ Val2(spreads[i].line) # 0}
    IN  IF hits = {} THEN alerts
        ELSE LET i == CHOOSE j \in hits : \A h \in hits : j <= h
             IN  Append(alerts, alert(alerts, "line_flip", "HIGH", game,
                     [current_line |-> spreads[i].line, team |-> spreads[i].team]))

\* _check_line_movement(game): the first team with abs(line) >= 14
_check_line_movement(alerts, game) ==
    LET spreads == game.odds.spreads
        hits == {i \in 1..Len(spreads) : Abs(Val2(spreads[i].line)) >= 28}
    IN  IF hits = {} THEN alerts
        ELSE LET i == CHOOSE j \in hits : \A h \in hits : j <= h
             IN  Append(alerts, alert(alerts, "line_movement", "MEDIUM", game,
                     [current_line |-> spreads[i].line]))

\* _extract_scoring_stats(matchup): None without tables or with zeros only
_extract_scoring_stats(matchup) ==
    IF matchup = Absent THEN None
    ELSE IF \A k \in DOMAIN matchup : matchup[k] = 0 THEN None
    ELSE matchup

\* _check_total_value(game); expected_total in tenths of a point, the
\* percentage compared without the division (the games of this model are
\* away from the two thresholds)
_check_total_value(alerts, game) ==
    LET over_line == game.odds.over_line
        stats == _extract_scoring_stats(game.matchup_stats)
    IN  IF over_line \in {Absent, None} \/ Val2(over_line) = 0 THEN alerts
        ELSE IF stats = None THEN alerts
        ELSE LET expected == 6 * (stats.home_offense_ppg + stats.away_offense_ppg)
                             + 4 * (stats.home_defense_ppg + stats.away_defense_ppg)
                 difference == 5 * Val2(over_line) - expected
                 data == [line |-> over_line, expected |-> expected]
                 over == IF 100 * difference <= -20 * expected
                         THEN Append(alerts, alert(alerts, "value_over", "HIGH", game, data))
                         ELSE alerts
             IN  IF 100 * difference >= 20 * expected
                 THEN Append(over, alert(over, "value_under", "HIGH", game, data))
                 ELSE over

\* _check_trap_game(game)
_check_trap_game(alerts, game) ==
    LET bet_pct == _parse_percentage(get_pct(game.betting_percentages, "spread_bet_pct"))
        money_pct == _parse_percentage(get_pct(game.betting_percentages, "spread_money_pct"))
    IN  IF float_le(float_of_tenths(700), bet_pct) /\ float_le(money_pct, float_of_tenths(450))
        THEN Append(alerts, alert(alerts, "trap_game", "MEDIUM", game,
                 [bet_pct |-> bet_pct, money_pct |-> money_pct]))
        ELSE alerts

\* _check_mismatch(game)
_check_mismatch(alerts, game) ==
    LET stats == _extract_scoring_stats(game.matchup_stats)
    IN  IF stats = None THEN alerts
        ELSE LET away_advantage == stats.away_offense_ppg - stats.home_defense_ppg
                 home_advantage == stats.home_offense_ppg - stats.away_defense_ppg
                 away == IF away_advantage >= 8
                         THEN Append(alerts, alert(alerts, "mismatch", "MEDIUM", game,
                                  [advantage |-> away_advantage, team |-> game.away_team]))
                         ELSE alerts
             IN  IF home_advantage >= 8
                 THEN Append(away, alert(away, "mismatch", "MEDIUM", game,
                          [advantage |-> home_advantage, team |-> game.home_team]))
                 ELSE away

\* _check_public_fade(game)
_check_public_fade(alerts, game) ==
    LET bet_pct == _parse_percentage(get_pct(game.betting_percentages, "spread_bet_pct"))
    IN  IF float_le(float_of_tenths(750), bet_pct) \/ float_le(bet_pct, float_of_tenths(250))
        THEN Append(alerts, alert(alerts, "public_fade", "LOW", game,
                 [bet_pct |-> bet_pct,
                  fade_side |-> IF float_le(float_of_tenths(750), bet_pct)
                                THEN "underdog" ELSE "favorite"]))
        ELSE alerts

RECURSIVE check_games(_, _)
\* the loop of analyze_all_games over the games left: the seven checks on
\* the first of them, _check_sharp_money first and _check_public_fade last
check_games(alerts, games) ==
    IF games = <<>> THEN alerts
    ELSE check_games(
             _check_public_fade(
                 _check_mismatch(
                     _check_trap_game(
                         _check_total_value(
                             _check_line_movement(
                                 _check_line_flip(
                                     _check_sharp_money(alerts, Head(games)),
                                     Head(games)),
                                 Head(games)),
                             Head(games)),
                         Head(games)),
                     Head(games)),
                 Head(games)),
             Tail(games))

\* priority_order.get(x['priority'], 3)
priority_order(priority) ==
    CASE priority = "HIGH" -> 0
      [] priority = "MEDIUM" -> 1
      [] priority = "LOW" -> 2
      [] OTHER -> 3

\* a sort by descending key of priority_order, LOW first
sort_low_first(alerts) ==
    SelectSeq(alerts, LAMBDA x : priority_order(x.priority) = 3)
       \o SelectSeq(alerts, LAMBDA x : priority_order(x.priority) = 2)
       \o SelectSeq(alerts, LAMBDA x : priority_order(x.priority) = 1)
       \o SelectSeq(alerts, LAMBDA x : priority_order(x.priority) = 0)

\* self.alerts.sort(key=...): list.sort is stable
sort(alerts) ==
    SelectSeq(alerts, LAMBDA x : priority_order(x.priority) = 0)
       \o SelectSeq(alerts, LAMBDA x : priority_order(x.priority) = 1)
       \o SelectSeq(alerts, LAMBDA x : priority_order(x.priority) = 2)
       \o SelectSeq(alerts, LAMBDA x : priority_order(x.priority) = 3)

\* analyze_all_games(): self.alerts after the call, which is also the list
\* returned
analyze_all_games(self) == sort(check_games(self.alerts, self.data.games))

\* the games of the data file: none, one or two. A str value is a record
\* with its text. The betting_percentages of a game: none matched, "N/A"
\* (the text of _extract_text when no element is found), and spread_bet_pct
\* / spread_money_pct with differences of 25, 24 and 40. Its odds and
\* matchup_stats: a plain game, a near pick'em with a low total, a large
\* spread with an offensive mismatch, and a game without odds
AlertData ==
    LET Text(t) == [ty |-> "str", text |-> t]
        PctText(n) ==
            Text(Dec(n \div 10) \o (IF n % 10 = 0 THEN <<>> ELSE <<Dot, Digit(n % 10)>>)
                 \o <<Percent>>)
        NotAvailable == Text(<<78, 47, 65>>)
        Betting(bet, money) == [spread_bet_pct |-> bet, spread_money_pct |-> money]
        BettingPercentages ==
            {Betting(Absent, Absent),
             Betting(NotAvailable, NotAvailable),
             Betting(PctText(400), PctText(650)),
             Betting(PctText(353), PctText(103)),
             Betting(PctText(103), PctText(353)),
             Betting(PctText(500), PctText(740)),
             Betting(PctText(800), PctText(400)),
             Betting(PctText(300), Absent)}
        Stats(ao, ho, ad, hd) ==
            [away_offense_ppg |-> ao, home_offense_ppg |-> ho,
             away_defense_ppg |-> ad, home_defense_ppg |-> hd]
        Odds(home_line, over_line) ==
            [spreads |-> <<[team |-> "H", line |-> Float_(home_line)],
                           [team |-> "A", line |-> Float_(-home_line)]>>,
             over_line |-> over_line]
        OddsAndStats ==
            {[odds |-> Odds(-6, Float_(90)), matchup_stats |-> Absent],
             [odds |-> Odds(-2, Float_(90)), matchup_stats |-> Stats(30, 30, 30, 30)],
             [odds |-> Odds(-29, Float_(90)), matchup_stats |-> Stats(30, 20, 20, 20)],
             [odds |-> [spreads |-> <<>>, over_line |-> Absent],
              matchup_stats |-> Stats(0, 0, 0, 0)]}
        Games(id) ==
            {[id |-> id, away_team |-> "A", home_team |-> "H",
              betting_percentages |-> b, odds |-> o.odds, matchup_stats |-> o.matchup_stats] :
                b \in BettingPercentages, o \in OddsAndStats}
    IN  {<<>>} \cup {<<g>> : g \in Games("g1")}
               \cup {<<g, h>> : g \in Games("g1"), h \in Games("g2")}

\* NFLAlertEngine(data_file): the data loaded, no alerts
InitAlerts ==
    /\ files = << >>
    /\ now = 0
    /\ wr = NoWriter
    /\ rd = NoReader
    /\ call \in {[op |-> "analyze_all_games",
                  self |-> [data |-> [games |-> games], alerts |-> <<>>],
                  calls |-> 0] : games \in AlertData}
    /\ ret = Pending

\* analyze_all_games() on the engine
AnalyzeAllGames ==
    /\ call.op = "analyze_all_games"
    /\ call.calls < MaxCalls
    /\ call' = [call EXCEPT !.self.alerts = analyze_all_games(call.self),
                            !.calls = call.calls + 1]
    /\ ret' = Returned(analyze_all_games(call.self))
    /\ UNCHANGED <<files, now, wr, rd>>

NextAlerts == AnalyzeAllGames

SpecAlerts == InitAlerts /\ [][NextAlerts]_vars

(***************************************************************************)
(* Properties of the snapshot store                                        *)
(***************************************************************************)
\* does the stored document hold a record of this game
Contains(doc, game_id) ==
    \E i \in 1..Len(json_load(doc).games) : json_load(doc).games[i].id = game_id

\* C1: after any sequence of saves, get_snapshots(game_id) returns every
\* persisted snapshot that contains game_id, in ascending order of the
\* instants their timestamps denote.
C1_SortedByTimestamp ==
    call.op = "get_snapshots" =>
        /\ ~ret.raised
        /\ \A f \in DOMAIN files :
              Contains(files[f], call.game_id) =>
                 \E j \in 1..Len(ret.value) :
                    ret.value[j].timestamp = json_load(files[f]).timestamp
        /\ \A i, j \in 1..Len(ret.value) :
              i < j => ~Before(fromisoformat(ret.value[j].timestamp),
                               fromisoformat(ret.value[i].timestamp))

\* C2: a save with a timestamp for which a snapshot is already stored is
\* rejected or stored under another name: the earlier snapshot is still in
\* the store after the call.
C2_CollisionKeepsEarlier ==
    [][call'.op = "save_snapshot" =>
          \A f \in DOMAIN files :
             json_load(files[f]).timestamp = call'.timestamp =>
                \E f2 \in DOMAIN files' : files'[f2] = files[f]]_vars

\* C3: the store is append-only: a save leaves every entry get_snapshots
\* returned before it in place, with the same content, and the number of
\* entries never decreases.
C3_AppendOnly ==
    [][call'.op = "save_snapshot" =>
          \A g \in GameIds :
             LET before == get_snapshots(files, g).value
                 after  == get_snapshots(files', g).value
             IN  /\ Len(after) >= Len(before)
                 /\ \A i \in 1..Len(before) : \E j \in 1..Len(after) : after[j] = before[i]]_vars

\* C4: round trip: after save_snapshot(games, ts), get_snapshots(g.id) for
\* every game g of the list has an entry with timestamp ts whose game record
\* equals g, field by field, number types included.
C4_RoundTrip ==
    call.op = "save_snapshot" =>
        \A i \in 1..Len(call.games) :
           LET got == get_snapshots(files, call.games[i].id)
           IN  /\ ~got.raised
               /\ \E j \in 1..Len(got.value) :
                     /\ got.value[j].timestamp = call.timestamp
                     /\ got.value[j].game = call.games[i]

\* a save of two games, with a float line of -3.0, an int price, an absent
\* and a null point, into a store that holds other snapshots
C4_Witness ==
    /\ call.op = "save_snapshot"
    /\ call.games = <<GameB, GameC>>
    /\ Cardinality(DOMAIN files) >= 2

\* C5: get_snapshots for a game id that is in no persisted snapshot, the
\* empty store included, returns the empty list and does not raise.
C5_UnknownGameEmpty ==
    (call.op = "get_snapshots" /\ \A f \in DOMAIN files : ~Contains(files[f], call.game_id))
        => ret = [raised |-> FALSE, value |-> <<>>]

\* a query for an id that no stored snapshot holds, on a non-empty store
C5_Witness ==
    /\ call.op = "get_snapshots"
    /\ DOMAIN files # {}
    /\ \A f \in DOMAIN files : ~Contains(files[f], call.game_id)
    /\ ret.value = <<>>

\* C6: a reader running while a save is in progress never meets a partly
\* written file: its json.load never fails on the file being written.
C6_NoPartialRead ==
    [][(rd.pc = "reading" /\ rd'.pc = "raised") =>
          ~(wr.pc = "writing" /\ wr.name = rd'.bad)]_vars

\* C7: after a save that failed, every snapshot that was readable before the
\* call is still in the store with the same content.
C7_FailedSaveKeepsEarlier ==
    wr.pc = "failed" =>
        \A f \in DOMAIN wr.pre :
           Complete(wr.pre[f]) => (f \in DOMAIN files /\ files[f] = wr.pre[f])

(***************************************************************************)
(* Properties of steam moves                                               *)
(***************************************************************************)
RECURSIVE SumOver(_, _)
\* the sum of f over the finite set S
SumOver(f, S) ==
    IF S = {} THEN 0
    ELSE LET x == CHOOSE y \in S : TRUE IN f[x] + SumOver(f, S \ {x})

\* the home spreads (half points) a book quotes in a game record: the points
\* of the home team's outcomes in its spreads markets
HomeQuotes(game, key) ==
    UNION {UNION {{Val2(mk.outcomes[n].point) :
                      n \in {k \in 1..Len(mk.outcomes) :
                                /\ mk.outcomes[k].name = game.home_team
                                /\ mk.outcomes[k].point.ty \in {"int", "float"}}} :
                  mk \in {bk.markets[m] :
                            m \in {j \in 1..Len(bk.markets) : bk.markets[j].key = "spreads"}}} :
           bk \in {game.bookmakers[b] :
                     b \in {i \in 1..Len(game.bookmakers) : game.bookmakers[i].key = key}}}

\* the home spread of a book that quotes one
HomeQuote(game, key) == CHOOSE x \in HomeQuotes(game, key) : TRUE

BookKeys(game) == {game.bookmakers[i].key : i \in 1..Len(game.bookmakers)}

\* the books with a home spread in both records
CommonBooks(prev, curr) ==
    {k \in BookKeys(prev) \cap BookKeys(curr) :
        HomeQuotes(prev, k) # {} /\ HomeQuotes(curr, k) # {}}

\* the absolute movement of a common book, in half points
Moved(prev, curr, k) == Abs(HomeQuote(curr, k) - HomeQuote(prev, k))

\* the books of a pair that moved 1.5 points or more
Movers(prev, curr) == {k \in CommonBooks(prev, curr) : Moved(prev, curr, k) >= 3}

\* the pairs (S[i], S[i+1]) with three or more such books
QualifyingPairs(S) ==
    {i \in 1..(Len(S) - 1) : Cardinality(Movers(S[i].game, S[i + 1].game)) >= 3}

\* the call returned a steam-move event
IsEvent(r) == r.op = "returned" /\ r.value # None

\* C11: detect_steam_move returns an event if and only if some consecutive
\* pair has at least 3 books, with a home spread in both snapshots, that
\* moved by 1.5 or more; otherwise it returns None.
C11_EventIffThreeBooksMove ==
    (call.op = "detect_steam_move" /\ ret # Pending) =>
        IF QualifyingPairs(call.snapshots) # {} THEN IsEvent(ret) ELSE ret = Returned(None)

\* C12: an event carries the timestamp of S[i+1] of a pair, the number of
\* that pair's significantly moving books as books_moved, and the mean of
\* exactly their absolute movements as avg_movement.
C12_EventFields ==
    (call.op = "detect_steam_move" /\ IsEvent(ret)) =>
        \E i \in 1..(Len(call.snapshots) - 1) :
           LET prev == call.snapshots[i].game
               curr == call.snapshots[i + 1].game
               moved == [k \in Movers(prev, curr) |-> Moved(prev, curr, k)]
           IN  /\ ret.value.timestamp = call.snapshots[i + 1].timestamp
               /\ ret.value.books_moved = Cardinality(Movers(prev, curr))
               /\ Movers(prev, curr) # {}
               /\ ret.value.avg_movement =
                     Quotient(SumOver(moved, Movers(prev, curr)), Cardinality(Movers(prev, curr)))

\* C13: when several pairs satisfy the steam threshold, the event returned is
\* that of the earliest of them.
C13_FirstQualifyingPair ==
    (call.op = "detect_steam_move" /\ ret # Pending
       /\ Cardinality(QualifyingPairs(call.snapshots)) >= 2) =>
        LET first == CHOOSE i \in QualifyingPairs(call.snapshots) :
                        \A j \in QualifyingPairs(call.snapshots) : i <= j
        IN  /\ IsEvent(ret)
            /\ ret.value.timestamp = call.snapshots[first + 1].timestamp

\* the first book, in the order of the record `order`, with a home spread in
\* both records
FirstCommon(order, prev, curr) ==
    order.bookmakers[CHOOSE i \in 1..Len(order.bookmakers) :
        /\ order.bookmakers[i].key \in CommonBooks(prev, curr)
        /\ \A j \in 1..(i - 1) : order.bookmakers[j].key \notin CommonBooks(prev, curr)].key

\* C14: the direction of an event is "up" if the home spread of the first
\* book common to both snapshots of its pair increased, and "down"
\* otherwise: both values compared are that one book's.
C14_DirectionOfOneBook ==
    (call.op = "detect_steam_move" /\ IsEvent(ret)) =>
        \A i \in 1..(Len(call.snapshots) - 1) :
           (call.snapshots[i + 1].timestamp = ret.value.timestamp) =>
              LET prev == call.snapshots[i].game
                  curr == call.snapshots[i + 1].game
              IN  /\ CommonBooks(prev, curr) # {}
                  /\ \E r \in {FirstCommon(prev, prev, curr), FirstCommon(curr, prev, curr)} :
                        ret.value.direction =
                           (IF HomeQuote(curr, r) > HomeQuote(prev, r) THEN "up" ELSE "down")

\* C15: on fewer than two snapshots detect_steam_move returns None and does
\* not raise.
C15_FewerThanTwoSnapshots ==
    (call.op = "detect_steam_move" /\ ret # Pending /\ Len(call.snapshots) < 2) =>
        ret = Returned(None)

\* a call with a single snapshot has returned
C15_Witness ==
    /\ call.op = "detect_steam_move"
    /\ Len(call.snapshots) = 1
    /\ ret = Returned(None)

\* C16: a book without a home spread in one snapshot of a pair is left out
\* of the pair's comparison: the books counted by an event are all books
\* with a home spread in both snapshots that moved by 1.5 or more.
C16_NoValueNoMover ==
    (call.op = "detect_steam_move" /\ IsEvent(ret)) =>
        \A i \in 1..(Len(call.snapshots) - 1) :
           (call.snapshots[i + 1].timestamp = ret.value.timestamp) =>
              ret.value.books_moved <=
                 Cardinality(Movers(call.snapshots[i].game, call.snapshots[i + 1].game))

\* a bookmaker whose spreads market has a home outcome without a number
Malformed(game, book) ==
    \E m \in 1..Len(book.markets) :
       /\ book.markets[m].key = "spreads"
       /\ \E o \in 1..Len(book.markets[m].outcomes) :
             /\ book.markets[m].outcomes[o].name = game.home_team
             /\ book.markets[m].outcomes[o].point.ty \in {"absent", "none"}

\* the record with its malformed bookmakers left out
WellFormedPart(game) ==
    [game EXCEPT !.bookmakers = SelectSeq(game.bookmakers, LAMBDA b : ~Malformed(game, b))]

\* C23: a bookmaker with malformed market data does not abort
\* detect_steam_move, and the result is the one computed from the
\* well-formed bookmakers alone.
C23_MalformedBookIsolated ==
    (call.op = "detect_steam_move" /\ ret # Pending) =>
        /\ ret.op = "returned"
        /\ ret = detect_steam_move([i \in 1..Len(call.snapshots) |->
                    [call.snapshots[i] EXCEPT !.game = WellFormedPart(call.snapshots[i].game)]])

(***************************************************************************)
(* Properties of implied probabilities                                     *)
(***************************************************************************)
\* p is the quotient num / den, for a rational p in lowest terms or not
IsQuotient(p, num, den) == p.den > 0 /\ p.num * den = num * p.den

\* C17: for odds o # 0 the implied probability is |o| / (|o| + 100) * 100
\* for o < 0 and 100 / (o + 100) * 100 for o > 0, strictly between 0 and 100.
C17_ImpliedProbability ==
    (call.op = "american_to_implied_prob" /\ ret # Pending /\ call.odds # 0) =>
        /\ ret.op = "returned"
        /\ IF call.odds < 0
           THEN IsQuotient(ret.value, Abs(call.odds) * 100, Abs(call.odds) + 100)
           ELSE IsQuotient(ret.value, 100 * 100, call.odds + 100)
        /\ 0 < ret.value.num
        /\ ret.value.num < 100 * ret.value.den

\* the probabilities of a favourite and of an underdog have been computed
C17_Witness ==
    /\ call.op = "american_to_implied_prob"
    /\ call.odds \in {-110, 150}
    /\ ret.op = "returned"
    /\ ret.value.num > 0

\* the outcomes of a market that carry a price which is not null
Priced(outcomes) ==
    {i \in 1..Len(outcomes) : outcomes[i].price.ty \notin {"absent", "none"}}

\* C18: the mapping returned by calculate_market_probabilities has an entry for
\* every outcome with a non-null price, a price of zero included, the
\* implied probability of a non-zero price, and no entry for other names.
C18_EveryPricedOutcomeKept ==
    (call.op = "calculate_market_probabilities" /\ ret # Pending) =>
        /\ ret.op = "returned"
        /\ DOMAIN ret.value = {call.outcomes[i].name : i \in Priced(call.outcomes)}
        /\ \A n \in DOMAIN ret.value :
              \E i \in Priced(call.outcomes) :
                 /\ call.outcomes[i].name = n
                 /\ LET o == call.outcomes[i].price.v
                    IN  \/ o = 0
                        \/ o < 0 /\ IsQuotient(ret.value[n], Abs(o) * 100, Abs(o) + 100)
                        \/ o > 0 /\ IsQuotient(ret.value[n], 100 * 100, o + 100)

(***************************************************************************)
(* Properties of the line movement report                                  *)
(***************************************************************************)
\* C19: the report for a game that no persisted snapshot holds is returned,
\* not raised, and carries the error marker and no line field.
C19_NoDataReport ==
    (call.op = "get_line_movement_report"
        /\ \A f \in DOMAIN files : ~Contains(files[f], call.game_id)) =>
        /\ ret.op = "returned"
        /\ "error" \in DOMAIN ret.value
        /\ DOMAIN ret.value \cap {"spread", "total", "steam_moves", "opening_timestamp",
                                  "current_timestamp", "snapshots_analyzed"} = {}

\* a report asked for an id that no snapshot of a non-empty store holds
C19_Witness ==
    /\ call.op = "get_line_movement_report"
    /\ DOMAIN files # {}
    /\ \A f \in DOMAIN files : ~Contains(files[f], call.game_id)
    /\ ret = Returned([error |-> "No snapshots found for this game"])

\* C20: in a report, for the spread and for the total, movement is current
\* minus opening when both consensus lines are defined (a line of 0
\* included), and null exactly when one of them is absent.
C20_MovementIffBothDefined ==
    (call.op = "get_line_movement_report" /\ ret.op = "returned"
        /\ "error" \notin DOMAIN ret.value) =>
        \A m \in {"spread", "total"} :
           LET line == ret.value[m]
           IN  IF line.opening # None /\ line.current # None
               THEN /\ line.movement # None
                    /\ IsQuotient(line.movement,
                                  line.current.num * line.opening.den
                                     - line.opening.num * line.current.den,
                                  line.current.den * line.opening.den)
               ELSE line.movement = None

\* the stored files that hold a record of this game
Holders(game_id) == {f \in DOMAIN files : Contains(files[f], game_id)}

\* the instant of a stored file's snapshot
InstantOf(f) == fromisoformat(json_load(files[f]).timestamp)

\* the record of this game in a stored file
RecordOf(f, game_id) ==
    LET games == json_load(files[f]).games
    IN  games[CHOOSE i \in 1..Len(games) :
                 games[i].id = game_id /\ \A j \in 1..(i - 1) : games[j].id # game_id]

\* C21: the report of a game with at least one snapshot takes its opening
\* timestamp and lines from the chronologically earliest snapshot of the
\* game and its current ones from the latest, counts the persisted snapshots
\* that hold the game, and lists the event of detect_steam_move, if any.
C21_OpeningEarliestCurrentLatest ==
    (call.op = "get_line_movement_report" /\ Holders(call.game_id) # {}) =>
        LET H == Holders(call.game_id)
            first == CHOOSE f \in H : \A g \in H : ~Before(InstantOf(g), InstantOf(f))
            last == CHOOSE f \in H : \A g \in H : ~Before(InstantOf(f), InstantOf(g))
            opening == RecordOf(first, call.game_id)
            current == RecordOf(last, call.game_id)
            steam == detect_steam_move(get_snapshots(files, call.game_id).value)
        IN  /\ ret.op = "returned"
            /\ ret.value.opening_timestamp = json_load(files[first]).timestamp
            /\ ret.value.current_timestamp = json_load(files[last]).timestamp
            /\ ~Before(fromisoformat(ret.value.current_timestamp),
                       fromisoformat(ret.value.opening_timestamp))
            /\ ret.value.spread.opening = calculate_consensus_line(opening, "spreads")
            /\ ret.value.spread.current = calculate_consensus_line(current, "spreads")
            /\ ret.value.total.opening = calculate_consensus_line(opening, "totals")
            /\ ret.value.total.current = calculate_consensus_line(current, "totals")
            /\ ret.value.snapshots_analyzed = Cardinality(H)
            /\ ret.value.steam_moves =
                  (IF steam.op = "returned" /\ steam.value # None THEN <<steam.value>> ELSE <<>>)

C24_ExitZeroIffCycleSucceeded ==
    (call.op = "main" /\ ret # Pending) => (ret.status = 0 <=> call.pc = "done")

\* C25: once the odds are fetched, no failure of a secondary source aborts
\* collect_all_data: the call is running or has returned True, it has not
\* raised or returned False, and every game has been handed to the matchup
\* scrape when it returns.
C25_SecondarySourceFailureIsNoData ==
    (call.op = "main" /\ call.games > 0) =>
        /\ call.collect \in {"running", "true"}
        /\ call.collect = "true" => call.game = call.games + 1

\* C30: when the process has ended, a browser that was started has been
\* closed.
C30_DriverClosedBeforeExit ==
    (call.op = "main" /\ ret # Pending) => call.driver # "open"

(***************************************************************************)
(* Properties of the alert engine                                          *)
(***************************************************************************)
Rank(a) == IF a.priority = "HIGH" THEN 1 ELSE IF a.priority = "MEDIUM" THEN 2 ELSE 3

\* the place of an alert's game in the data, and of its check in a pass
GameIndex(a) == CHOOSE i \in 1..Len(call.self.data.games) : call.self.data.games[i].id = a.game_id
CheckIndex(a) ==
    CASE a.type = "sharp_money" -> 1
      [] a.type = "line_flip" -> 2
      [] a.type = "line_movement" -> 3
      [] a.type \in {"value_over", "value_under"} -> 4
      [] a.type = "trap_game" -> 5
      [] a.type = "mismatch" -> 6
      [] a.type = "public_fade" -> 7

\* C26: in the list returned by analyze_all_games every HIGH alert precedes
\* every MEDIUM alert, which precedes every LOW alert; alerts of equal
\* priority are in the order of their generation, which within a pass is
\* the order of the games and then of the checks.
C26_RankedByPriority ==
    (call.op = "analyze_all_games" /\ ret # Pending) =>
        \A i, j \in 1..Len(ret.value) :
           i < j =>
              LET a == ret.value[i]
                  b == ret.value[j]
              IN  /\ Rank(a) <= Rank(b)
                  /\ Rank(a) = Rank(b) => a.nth < b.nth
                  /\ (call.calls = 1 /\ a.nth < b.nth) =>
                        \/ GameIndex(a) < GameIndex(b)
                        \/ GameIndex(a) = GameIndex(b) /\ CheckIndex(a) <= CheckIndex(b)

\* a returned list in which a HIGH alert precedes a LOW alert generated
\* before it, with two alerts of one priority from different games
C26_Witness ==
    /\ call.op = "analyze_all_games"
    /\ ret # Pending
    /\ \E i, j \in 1..Len(ret.value) :
          i < j /\ ret.value[i].nth > ret.value[j].nth
    /\ \E i, j \in 1..Len(ret.value) :
          /\ i < j
          /\ ret.value[i].priority = ret.value[j].priority
          /\ ret.value[i].game_id # ret.value[j].game_id

\* the games without betting-percentage data: nothing matched, or the
\* text "N/A"
NoBettingData(game) ==
    \A k \in {"spread_bet_pct", "spread_money_pct"} :
       \/ game.betting_percentages[k] = Absent
       \/ /\ game.betting_percentages[k].ty = "str"
          /\ game.betting_percentages[k].text = <<78, 47, 65>>

\* C27: for a game without betting-percentage data analyze_all_games
\* returns, with no sharp_money, trap_game or public_fade alert for it.
C27_NoBettingDataNoAlert ==
    (call.op = "analyze_all_games" /\ ret # Pending) =>
        /\ ret.op = "returned"
        /\ \A g \in 1..Len(call.self.data.games) :
              NoBettingData(call.self.data.games[g]) =>
                 \A i \in 1..Len(ret.value) :
                    ret.value[i].game_id = call.self.data.games[g].id =>
                       ret.value[i].type \notin {"sharp_money", "trap_game", "public_fade"}

\* the percentage of a text in tenths; 0 for a missing key or a text that
\* is not a percentage
TenthsOf(betting, key) ==
    IF betting[key].ty = "absent" THEN 0 ELSE _parse_percentage(betting[key].text).n

\* C28: after one pass a game has a sharp_money alert if and only if its
\* spread bet and money percentages are both present and non-zero and
\* differ by at least 25, and it has at most one.
C28_SharpMoneyIffDifferential ==
    (call.op = "analyze_all_games" /\ call.calls = 1) =>
        \A g \in 1..Len(call.self.data.games) :
           LET game == call.self.data.games[g]
               bet == TenthsOf(game.betting_percentages, "spread_bet_pct")
               money == TenthsOf(game.betting_percentages, "spread_money_pct")
               sharp == {i \in 1..Len(ret.value) :
                            ret.value[i].type = "sharp_money" /\ ret.value[i].game_id = game.id}
           IN  /\ sharp # {} <=> (bet # 0 /\ money # 0 /\ Abs(money - bet) >= 250)
               /\ Cardinality(sharp) <= 1

\* C29: a call of analyze_all_games after the first returns the list the
\* call before it returned.
C29_AnalyzeIdempotent ==
    [][(call.op = "analyze_all_games" /\ call.calls >= 1 /\ call'.calls = call.calls + 1)
          => ret' = ret]_vars

(***************************************************************************)
(* Properties of the consensus line                                        *)
(***************************************************************************)
\* the outcome whose point the consensus is about
TargetName(game, market_type) == IF market_type = "spreads" THEN game.home_team ELSE "Over"

\* the places <<market, outcome>> where a bookmaker reports the target
\* outcome of this market type with a point
PointsOf(b, name, market_type) ==
    {mo \in {<<m, o>> : m \in 1..Len(b.markets), o \in 1..3} :
        /\ mo[2] <= Len(b.markets[mo[1]].outcomes)
        /\ b.markets[mo[1]].key = market_type
        /\ b.markets[mo[1]].outcomes[mo[2]].name = name
        /\ Get(b.markets[mo[1]].outcomes[mo[2]].point) # None}

Permuted(game, p) ==
    [game EXCEPT !.bookmakers = [i \in 1..Len(game.bookmakers) |-> game.bookmakers[p[i]]]]

\* the orders of n bookmakers
Orders(n) == {p \in [1..n -> 1..n] : \A i, j \in 1..n : p[i] = p[j] => i = j}

\* C9: the consensus line of a game record is the same for every order of
\* its bookmakers list.
C9_OrderInvariant ==
    (call.op = "calculate_consensus_line" /\ ret.op = "returned") =>
        \A p \in Orders(Len(call.game.bookmakers)) :
           calculate_consensus_line(Permuted(call.game, p), call.market_type) = ret.value

\* a consensus over three bookmakers with three different home spreads
C9_Witness ==
    /\ call.op = "calculate_consensus_line"
    /\ ret.op = "returned"
    /\ call.market_type = "spreads"
    /\ call.game.bookmakers = <<BookDk, BookFd, BookBr>>
    /\ ret.value = Quotient(-15, 2)

(***************************************************************************)
(* Properties of reverse line movement                                     *)
(***************************************************************************)
\* the condition the specification gives for reverse movement
ReverseCondition(c) ==
    \/ c.implied_public_bet_pct > c.threshold /\ c.current_line - c.opening_line < 0
    \/ c.implied_public_bet_pct < 100 - c.threshold /\ c.current_line - c.opening_line > 0

\* C10: detect_reverse_line_movement is True exactly when the condition
\* holds; it is False whenever current = opening, and False whenever pct
\* equals threshold or 100 - threshold.
C10_ReverseExactAndEdges ==
    (call.op = "detect_reverse_line_movement" /\ ret.op = "returned") =>
        /\ ret.value = ReverseCondition(call)
        /\ call.current_line = call.opening_line => ret.value = FALSE
        /\ (\/ call.implied_public_bet_pct = call.threshold
            \/ call.implied_public_bet_pct = 100 - call.threshold) => ret.value = FALSE

\* C10 (amended): detect_reverse_line_movement is True exactly when the
\* condition holds; it is False whenever current = opening, and, for a
\* threshold of at least 50, False whenever pct equals threshold or
\* 100 - threshold.
C10_ReverseExactAndEdgesFrom50 ==
    (call.op = "detect_reverse_line_movement" /\ ret.op = "returned") =>
        /\ ret.value = ReverseCondition(call)
        /\ call.current_line = call.opening_line => ret.value = FALSE
        /\ (/\ call.threshold >= 50
            /\ \/ call.implied_public_bet_pct = call.threshold
               \/ call.implied_public_bet_pct = 100 - call.threshold) => ret.value = FALSE

\* the public exactly at the default threshold and the line moving down:
\* no reverse movement
C10_Witness ==
    /\ call.op = "detect_reverse_line_movement"
    /\ ret.op = "returned"
    /\ call.threshold = DefaultThreshold
    /\ call.implied_public_bet_pct = call.threshold
    /\ call.current_line < call.opening_line
    /\ ret.value = FALSE

====
